---- MODULE Spec2Model ----
(***************************************************************************)
(* Session stores of iris-contrib/sessiondb: mongostore.Database and       *)
(* dgraphstore.Database behind the session manager's Database interface.   *)
(*                                                                         *)
(* The state is what the backing database holds: for MongoDB one           *)
(* collection per session id, each a list of documents in natural order;   *)
(* for Dgraph a set of nodes with the predicates sid, skey and svalue.     *)
(* Every interface method is one action; the database calls it makes are   *)
(* modelled by what the MongoDB server and the Dgraph Alpha do with the    *)
(* request the code builds.                                                *)
(***************************************************************************)
EXTENDS Integers, Sequences, FiniteSets, TLC

VARIABLES
    backend,            \* the store handed to sess.UseDatabase: "mongo" or "dgraph"
    serverAllowsDollar, \* MongoDB server stores a top-level field named "$set" (5.0+) or rejects the insert
    db,                 \* the *Database the program holds: "nil" until a New has returned one
    schema,             \* Dgraph: the type SessionEntry and its predicates are declared
    inflight,           \* session id -> Acquire calls between their lookup, which found nothing, and their write
    clearing,           \* Dgraph: the Clear call inside its loop: its session, the entries it read, the next one
    immutables,         \* history: the (sid, key) pairs some Set has stored with immutable = true
    alters,             \* history: Dgraph: Alter calls that declared the schema
    coll,               \* MongoDB: session id -> documents of Collection(sid), natural order
    nodes,              \* Dgraph: the nodes that carry a sid predicate
    nextUid,            \* Dgraph: next uid the Alpha assigns
    firstExpiry,        \* history: expiry computed by the first Acquire(sid) since the last Release(sid)
    ret                 \* the last call: method, session id, key, return value

vars == <<backend, serverAllowsDollar, db, schema, inflight, clearing, immutables, alters,
          coll, nodes, nextUid, firstExpiry, ret>>

----------------------------------------------------------------------------
(* Bounds of the model *)

MaxDocs == 2    \* documents held by all MongoDB collections together
MaxUid  == 2    \* uids the Dgraph Alpha hands out
MaxInflight == 2    \* Acquire calls between their lookup and their write, all sessions together
MaxAlters == 2      \* Alter calls that declare the schema

Sids == {"s1", "s2"}
\* "s1" is also a key: Set(sid, key) with key = sid addresses the bootstrap pair
Keys == {"k1", "s1"}
Ttls == {1, 2}

----------------------------------------------------------------------------
(* Times.  LifeTime{} holds Go's zero time; cookieExpireDelete is a fixed  *)
(* date in 2009, before every time.Now().                                  *)

ZeroTime == 0
CookieExpireDelete == 1

\* what time.Now() reads; the expiry Acquire computes varies with its ttl
Clock == {CookieExpireDelete + 1}

----------------------------------------------------------------------------
(* Values and their serialization.                                         *)
(* sessions.DefaultTranscoder is encoding/json: a Go int comes back as a   *)
(* float64, a string as a string, a time.Time as its RFC 3339 string when  *)
(* decoded into an interface{} and as a time.Time when decoded into a      *)
(* *time.Time; a channel cannot be marshalled.                             *)

Nil == [t |-> "nil", v |-> 0]

Values == {[t |-> "int", v |-> 7], [t |-> "string", v |-> 8], [t |-> "chan", v |-> 9]}

NoBytes == [enc |-> "none", kind |-> "none", v |-> 0]

\* a transcoder that marshals whatever it is given
MarshalsAnything(value) == FALSE

MarshalFails(value) == value.t = "chan"

Marshal(value) ==
    IF MarshalFails(value) THEN NoBytes
    ELSE [enc |-> "json",
          kind |-> CASE value.t \in {"int", "float64"} -> "number"
                     [] value.t = "string" -> "string"
                     [] value.t = "time" -> "rfc3339"
                     [] OTHER -> "null",
          v |-> value.v]

\* base64.StdEncoding.EncodeToString
EncodeToString(bytes) == [enc |-> "base64", of |-> bytes]

\* base64.StdEncoding.DecodeString, its error dropped: no bytes on bad input
DecodeString(str) == IF str.enc = "base64" THEN str.of ELSE NoBytes

\* Unmarshal(bytes, &value) with value an interface{} holding `out` before the call
Unmarshal(bytes, out) ==
    IF bytes.enc # "json" THEN out
    ELSE CASE bytes.kind = "number" -> [t |-> "float64", v |-> bytes.v]
           [] bytes.kind = "string" -> [t |-> "string", v |-> bytes.v]
           [] bytes.kind = "rfc3339" -> [t |-> "string", v |-> bytes.v]
           [] OTHER -> Nil

UnmarshalFails(bytes) == bytes.enc # "json"

\* Unmarshal(bytes, &expirationTime) with expirationTime the zero time.Time
UnmarshalTime(bytes) ==
    IF bytes.enc = "json" /\ bytes.kind = "rfc3339" THEN bytes.v ELSE ZeroTime

\* the outPtr a caller hands to Decode: a *interface{} or a *time.Time
OutKinds == {"interface", "time"}

\* what the pointee holds before the call
ZeroOut(kind) == IF kind = "interface" THEN Nil ELSE [t |-> "time", v |-> ZeroTime]

\* whether Unmarshal(bytes, outPtr) returns an error: no JSON at all, or JSON
\* that is not a time string where outPtr is a *time.Time
UnmarshalAsFails(bytes, kind) ==
    \/ UnmarshalFails(bytes)
    \/ kind = "time" /\ bytes.kind # "rfc3339"

\* what the pointee holds after Unmarshal(bytes, outPtr)
UnmarshalAs(bytes, kind, out) ==
    IF kind = "interface" THEN Unmarshal(bytes, out)
    ELSE IF UnmarshalAsFails(bytes, kind) THEN out
    ELSE [t |-> "time", v |-> bytes.v]

\* what a caller gets back for a value it stored
RoundTrip(value) == Unmarshal(Marshal(value), Nil)

\* sessions.LifeTime{Time: time}
LifeTime(time) == [t |-> "LifeTime", v |-> time]

\* a call that did not return: the goroutine panicked
Panicked == [t |-> "panic", v |-> 0]

\* the last call and what it returned
Ret(op, sid, key, val) == [op |-> op, sid |-> sid, key |-> key, val |-> val]

\* no Clear call is inside its loop
NoClear == [sid |-> "", entries |-> <<>>, next |-> 1]

----------------------------------------------------------------------------
(* Construction.  New refuses an empty name before it touches the driver;  *)
(* the value is the *Database and the error returned, and whether          *)
(* mongo.Connect or grpc.Dial was called.                                  *)

errDatabaseNameMissing == "database name is required"
errPathMissing == "gRPC url is required"

Databases == {"", "sessions"}
Targets == {"", "localhost:9080"}

\* a New that connects before it looks at the database name
ConnectsFirst(database, connectOK) ==
    IF ~connectOK THEN [db |-> "nil", err |-> "connect error", dialed |-> TRUE]
    ELSE IF database = "" THEN [db |-> "nil", err |-> errDatabaseNameMissing, dialed |-> TRUE]
    ELSE [db |-> "store", err |-> "nil", dialed |-> TRUE]

MongoNewValue(database, connectOK) ==
    IF database = "" THEN [db |-> "nil", err |-> errDatabaseNameMissing, dialed |-> FALSE]
    ELSE IF ~connectOK THEN [db |-> "nil", err |-> "connect error", dialed |-> TRUE]
    ELSE [db |-> "store", err |-> "nil", dialed |-> TRUE]

MongoNew(database, connectOK) ==
    /\ backend = "mongo"
    /\ database = "" => connectOK
    /\ db' = IF MongoNewValue(database, connectOK).db = "store" THEN "store" ELSE db
    /\ ret' = Ret("New", "", database, MongoNewValue(database, connectOK))
    /\ UNCHANGED <<backend, serverAllowsDollar, immutables, alters, schema, inflight, clearing,
                   coll, nodes, nextUid, firstExpiry>>

\* a NewFromDB that declares the schema without looking
AltersAlways(queryOK) == queryOK

\* whether NewFromDB calls Alter
NewFromDBAlters(queryOK) == queryOK /\ ~schema

\* NewFromDB: query the schema, declare it with Alter when the type is missing
NewFromDBValue(queryOK, alterOK) ==
    IF ~queryOK THEN [db |-> "nil", err |-> "query error", dialed |-> TRUE]
    ELSE IF NewFromDBAlters(queryOK) /\ ~alterOK
         THEN [db |-> "nil", err |-> "alter error", dialed |-> TRUE]
    ELSE [db |-> "store", err |-> "nil", dialed |-> TRUE]

\* whether this New reaches NewFromDB's Alter and the Alter succeeds
DgraphNewDeclares(target, dialOK, queryOK, alterOK) ==
    target # "" /\ dialOK /\ NewFromDBAlters(queryOK) /\ alterOK

DgraphNewValue(target, dialOK, queryOK, alterOK) ==
    IF target = "" THEN [db |-> "nil", err |-> errPathMissing, dialed |-> FALSE]
    ELSE IF ~dialOK THEN [db |-> "nil", err |-> "dial error", dialed |-> TRUE]
    ELSE NewFromDBValue(queryOK, alterOK)

DgraphNew(target, dialOK, queryOK, alterOK) ==
    /\ backend = "dgraph"
    /\ (target = "" \/ ~dialOK) => (queryOK /\ alterOK)
    /\ target = "" => dialOK
    /\ ~NewFromDBAlters(queryOK) => alterOK
    /\ DgraphNewDeclares(target, dialOK, queryOK, alterOK) => alters < MaxAlters
    /\ schema' = (schema \/ DgraphNewDeclares(target, dialOK, queryOK, alterOK))
    /\ alters' = IF DgraphNewDeclares(target, dialOK, queryOK, alterOK) THEN alters + 1 ELSE alters
    /\ db' = IF DgraphNewValue(target, dialOK, queryOK, alterOK).db = "store" THEN "store" ELSE db
    /\ ret' = Ret("New", "", target, DgraphNewValue(target, dialOK, queryOK, alterOK))
    /\ UNCHANGED <<backend, serverAllowsDollar, immutables, inflight, clearing,
                   coll, nodes, nextUid, firstExpiry>>

----------------------------------------------------------------------------
(* MongoDB.  A document is {key, value} (top = "kv") or the document       *)
(* Acquire inserts, whose only field is "$set" (top = "$set") with key and *)
(* value nested inside it: the filter {key: x} reads the top-level field   *)
(* "key", which that document does not have.                               *)

KVDoc(key, value) == [top |-> "kv", key |-> key, value |-> value]
DollarSetDoc(key, value) == [top |-> "$set", key |-> key, value |-> value]

TotalDocs == LET RECURSIVE Sum(_)
                 Sum(S) == IF S = {} THEN 0
                           ELSE LET s == CHOOSE x \in S : TRUE
                                IN Len(coll[s]) + Sum(S \ {s})
             IN Sum(Sids)

\* the filter bson.D{{"key", key}}
MatchesKey(doc, key) == doc.top = "kv" /\ doc.key = key

\* index of the first document the filter {key: key} matches, 0 if none
FindOne(docs, key) ==
    IF \E i \in 1..Len(docs) : MatchesKey(docs[i], key)
    THEN CHOOSE i \in 1..Len(docs) :
            /\ MatchesKey(docs[i], key)
            /\ \A j \in 1..(i - 1) : ~MatchesKey(docs[j], key)
    ELSE 0

RemoveAt(docs, i) == [j \in 1..(Len(docs) - 1) |-> IF j < i THEN docs[j] ELSE docs[j + 1]]

\* an InsertOne where the upsert belongs
InsertOneAlways(docs, key, valueBase) == Append(docs, KVDoc(key, valueBase))

\* an update that replaces the collection by the one document
ReplaceCollection(docs, key, valueBase) == <<KVDoc(key, valueBase)>>

\* UpdateOne(filter {key}, {$set: {key, value}}, upsert)
UpdateOneUpsert(docs, key, valueBase) ==
    LET i == FindOne(docs, key)
    IN IF i = 0 THEN Append(docs, KVDoc(key, valueBase))
       ELSE [docs EXCEPT ![i] = KVDoc(key, valueBase)]

\* a DeleteOne whose filter is empty: the first document goes
DeleteOneUnfiltered(docs, key) == IF docs = <<>> THEN docs ELSE Tail(docs)

\* DeleteOne(filter {key})
DeleteOne(docs, key) ==
    LET i == FindOne(docs, key) IN IF i = 0 THEN docs ELSE RemoveAt(docs, i)

\* DeleteMany(filter {key: {$ne: sid}}): $ne also matches documents without the field
DeleteManyNe(docs, sid) == SelectSeq(docs, LAMBDA d : MatchesKey(d, sid))

\* bsoncore.Value.String() of a string element: extended JSON, quotes included
ExtJSON(str) == "\"" \o str \o "\""

\* what Acquire(sid, expires) returns: FindOne reports an error for "no
\* document" and for a failed call alike
MongoAcquireValue(sid, findOK) ==
    LET i == FindOne(coll[sid], sid)
    IN IF ~findOK \/ i = 0
       THEN LifeTime(CookieExpireDelete)
       ELSE LifeTime(UnmarshalTime(DecodeString(coll[sid][i].value)))

MongoAcquire(sid, expires, now, findOK, insertOK) ==
    LET expirationTime == now + expires
        timeBase == EncodeToString(Marshal([t |-> "time", v |-> expirationTime]))
        stored == insertOK /\ serverAllowsDollar
    IN /\ backend = "mongo" /\ db = "store"
       /\ IF ~findOK \/ FindOne(coll[sid], sid) = 0
          THEN \* InsertOne of the document {"$set": {key, value}}, its result dropped
               /\ stored => TotalDocs < MaxDocs
               /\ coll' = IF stored
                          THEN [coll EXCEPT ![sid] = Append(@, DollarSetDoc(sid, timeBase))]
                          ELSE coll
               /\ firstExpiry' = IF firstExpiry[sid] = ZeroTime
                                 THEN [firstExpiry EXCEPT ![sid] = expirationTime]
                                 ELSE firstExpiry
          ELSE /\ insertOK
               /\ UNCHANGED <<coll, firstExpiry>>
       /\ ret' = Ret("Acquire", sid, sid, MongoAcquireValue(sid, findOK))
       /\ UNCHANGED <<backend, serverAllowsDollar, immutables, alters, db, schema, inflight, clearing, nodes, nextUid>>

\* Acquire calls that have looked up and not yet written, all sessions together
TotalInflight == LET RECURSIVE Sum(_)
                     Sum(S) == IF S = {} THEN 0
                               ELSE LET s == CHOOSE x \in S : TRUE
                                    IN inflight[s] + Sum(S \ {s})
                 IN Sum(Sids)

\* Acquire up to its `if err := res.Err(); err != nil`, taken: other calls may
\* run before this one goes on to InsertOne
MongoAcquireFindOne(sid, findOK) ==
    /\ backend = "mongo" /\ db = "store"
    /\ ~findOK \/ FindOne(coll[sid], sid) = 0
    /\ TotalInflight < MaxInflight
    /\ inflight' = [inflight EXCEPT ![sid] = @ + 1]
    /\ UNCHANGED <<backend, serverAllowsDollar, immutables, alters, db, schema, clearing, coll, nodes, nextUid, firstExpiry, ret>>

\* the rest of that Acquire: InsertOne, its result dropped, and the return
MongoAcquireInsertOne(sid, expires, now, insertOK) ==
    LET expirationTime == now + expires
        timeBase == EncodeToString(Marshal([t |-> "time", v |-> expirationTime]))
        stored == insertOK /\ serverAllowsDollar
    IN /\ backend = "mongo" /\ db = "store"
       /\ inflight[sid] > 0
       /\ stored => TotalDocs < MaxDocs
       /\ coll' = IF stored
                  THEN [coll EXCEPT ![sid] = Append(@, DollarSetDoc(sid, timeBase))]
                  ELSE coll
       /\ firstExpiry' = IF firstExpiry[sid] = ZeroTime
                         THEN [firstExpiry EXCEPT ![sid] = expirationTime]
                         ELSE firstExpiry
       /\ inflight' = [inflight EXCEPT ![sid] = @ - 1]
       /\ ret' = Ret("Acquire", sid, sid, LifeTime(CookieExpireDelete))
       /\ UNCHANGED <<backend, serverAllowsDollar, immutables, alters, db, schema, clearing, nodes, nextUid>>

\* an OnUpdateExpiration that reports success
UpdatedExpiration(sid, newExpires) == "nil"

\* what OnUpdateExpiration(sid, newExpires) returns: sessions.ErrNotImplemented
OnUpdateExpirationValue(sid, newExpires) == "not implemented"

MongoOnUpdateExpiration(sid, newExpires) ==
    /\ backend = "mongo" /\ db = "store"
    /\ ret' = Ret("OnUpdateExpiration", sid, "", OnUpdateExpirationValue(sid, newExpires))
    /\ UNCHANGED <<backend, serverAllowsDollar, immutables, alters, db, schema, inflight, clearing, coll, nodes, nextUid, firstExpiry>>

\* the pairs noted as stored with immutable = true, after a Set
Noted(sid, key, immutable, stored) ==
    IF immutable /\ stored THEN immutables \cup {<<sid, key>>} ELSE immutables

\* Set(sid, key, value, dur, immutable): the code never reads immutable
MongoSetImmutable(sid, key, value, immutable, drv) ==
    /\ backend = "mongo" /\ db = "store"
    /\ IF MarshalFails(value)
       THEN /\ drv
            /\ ret' = Ret("Set", sid, key, "marshal error")
            /\ UNCHANGED coll
       ELSE IF ~drv
       THEN /\ ret' = Ret("Set", sid, key, "driver error")
            /\ UNCHANGED coll
       ELSE /\ FindOne(coll[sid], key) = 0 => TotalDocs < MaxDocs
            /\ coll' = [coll EXCEPT ![sid] =
                          UpdateOneUpsert(@, key, EncodeToString(Marshal(value)))]
            /\ ret' = Ret("Set", sid, key, "nil")
    /\ immutables' = Noted(sid, key, immutable, drv /\ ~MarshalFails(value))
    /\ UNCHANGED <<backend, serverAllowsDollar, alters, db, schema, inflight, clearing, nodes, nextUid, firstExpiry>>

\* Set called with immutable = false
MongoSet(sid, key, value, drv) == MongoSetImmutable(sid, key, value, FALSE, drv)

\* Decode(sid, key, outPtr): the error it returns and what outPtr holds afterwards
MongoDecode(sid, key, out, drv) ==
    LET i == FindOne(coll[sid], key)
    IN IF ~drv THEN [err |-> "driver error", out |-> out]
       ELSE IF i = 0 THEN [err |-> "no documents", out |-> out]
       ELSE [err |-> "nil", out |-> Unmarshal(DecodeString(coll[sid][i].value), out)]

\* Decode(sid, key, outPtr) for either kind of outPtr
MongoDecodeAs(sid, key, kind, out, drv) ==
    LET i == FindOne(coll[sid], key)
    IN IF ~drv THEN [err |-> "driver error", out |-> out]
       ELSE IF i = 0 THEN [err |-> "no documents", out |-> out]
       ELSE [err |-> "nil", out |-> UnmarshalAs(DecodeString(coll[sid][i].value), kind, out)]

MongoDecodeCall(sid, key, kind, drv) ==
    /\ backend = "mongo" /\ db = "store"
    /\ ret' = Ret("Decode", sid, key, MongoDecodeAs(sid, key, kind, ZeroOut(kind), drv))
    /\ UNCHANGED <<backend, serverAllowsDollar, immutables, alters, db, schema, inflight, clearing, coll, nodes, nextUid, firstExpiry>>

\* a Get that hands Decode's error to its caller
GetSurfacesError(sid, key, drv) ==
    LET d == MongoDecode(sid, key, Nil, drv)
    IN IF d.err = "nil" THEN d.out ELSE [t |-> "error", v |-> 0]

\* what Get(sid, key) returns
MongoGetValue(sid, key, drv) ==
    LET d == MongoDecode(sid, key, Nil, drv)
    IN IF d.err = "nil" THEN d.out ELSE Nil

MongoGet(sid, key, drv) ==
    /\ backend = "mongo" /\ db = "store"
    /\ ret' = Ret("Get", sid, key, MongoGetValue(sid, key, drv))
    /\ UNCHANGED <<backend, serverAllowsDollar, immutables, alters, db, schema, inflight, clearing, coll, nodes, nextUid, firstExpiry>>

\* the callback invocations of Visit's loop, and whether v.StringValue() panicked:
\* a document without a string field "value" makes it panic
RECURSIVE MongoVisitLoop(_, _)
MongoVisitLoop(docs, calls) ==
    IF docs = <<>> THEN [calls |-> calls, panic |-> FALSE]
    ELSE LET d == Head(docs)
         IN IF d.top # "kv" THEN [calls |-> calls, panic |-> TRUE]
            ELSE MongoVisitLoop(Tail(docs),
                   Append(calls, <<ExtJSON(d.key), Unmarshal(DecodeString(d.value), Nil)>>))

MongoVisitResult(sid, drv) ==
    IF ~drv THEN [calls |-> <<>>, panic |-> FALSE] ELSE MongoVisitLoop(coll[sid], <<>>)

MongoVisit(sid, drv) ==
    /\ backend = "mongo" /\ db = "store"
    /\ ret' = Ret("Visit", sid, "", MongoVisitResult(sid, drv))
    /\ UNCHANGED <<backend, serverAllowsDollar, immutables, alters, db, schema, inflight, clearing, coll, nodes, nextUid, firstExpiry>>

\* a CountDocuments that filters the bootstrap key out, as Clear's filter does
CountWithoutBootstrap(sid, drv) ==
    IF drv THEN Len(SelectSeq(coll[sid], LAMBDA d : d.key # sid)) ELSE 0

\* what Len(sid) returns: CountDocuments with the empty filter
MongoLenValue(sid, drv) == IF drv THEN Len(coll[sid]) ELSE 0

MongoLen(sid, drv) ==
    /\ backend = "mongo" /\ db = "store"
    /\ ret' = Ret("Len", sid, "", MongoLenValue(sid, drv))
    /\ UNCHANGED <<backend, serverAllowsDollar, immutables, alters, db, schema, inflight, clearing, coll, nodes, nextUid, firstExpiry>>

\* a Delete that reports whether a document was there to delete
DeletedIfExisted(sid, key, drv) == drv /\ FindOne(coll[sid], key) # 0

\* what Delete(sid, key) returns: whether DeleteOne returned no error
MongoDeleteValue(sid, key, drv) == drv

MongoDelete(sid, key, drv) ==
    /\ backend = "mongo" /\ db = "store"
    /\ coll' = IF drv THEN [coll EXCEPT ![sid] = DeleteOne(@, key)] ELSE coll
    /\ ret' = Ret("Delete", sid, key, MongoDeleteValue(sid, key, drv))
    /\ UNCHANGED <<backend, serverAllowsDollar, immutables, alters, db, schema, inflight, clearing, nodes, nextUid, firstExpiry>>

MongoClear(sid, drv) ==
    /\ backend = "mongo" /\ db = "store"
    /\ coll' = IF drv THEN [coll EXCEPT ![sid] = DeleteManyNe(@, sid)] ELSE coll
    /\ ret' = Ret("Clear", sid, "", IF drv THEN "nil" ELSE "driver error")
    /\ UNCHANGED <<backend, serverAllowsDollar, immutables, alters, db, schema, inflight, clearing, nodes, nextUid, firstExpiry>>

MongoRelease(sid, drv) ==
    /\ backend = "mongo" /\ db = "store"
    /\ coll' = IF drv THEN [coll EXCEPT ![sid] = <<>>] ELSE coll
    /\ firstExpiry' = [firstExpiry EXCEPT ![sid] = ZeroTime]
    /\ ret' = Ret("Release", sid, "", IF drv THEN "nil" ELSE "driver error")
    /\ UNCHANGED <<backend, serverAllowsDollar, immutables, alters, db, schema, inflight, clearing, nodes, nextUid>>

----------------------------------------------------------------------------
(* Dgraph.  A node is its uid and the predicates sid, skey and svalue.     *)
(* Query results come in uid order.                                        *)

Node(uid, sid, skey, svalue) == [uid |-> uid, sid |-> sid, skey |-> skey, svalue |-> svalue]

RECURSIVE ByUid(_)
ByUid(S) ==
    IF S = {} THEN <<>>
    ELSE LET first == CHOOSE n \in S : \A m \in S : n.uid <= m.uid
         IN <<first>> \o ByUid(S \ {first})

\* q(func: eq(skey, key)) @filter(eq(sid, sid))
QueryKey(sid, key) == {n \in nodes : n.skey = key /\ n.sid = sid}

\* q(func: eq(sid, sid))
QuerySid(sid) == {n \in nodes : n.sid = sid}

\* Acquire's mutation names uid(v) in a request that has no query block: the
\* Alpha answers "variables [v] not defined" and Do returns that error
AcquireMutationRejected == TRUE

\* Delete's N-Quad `uid(v) "key" * .` has a quoted literal where the predicate
\* belongs: the Alpha answers with a parse error and Do returns it
DeleteNQuadRejected == TRUE

\* what Acquire(sid, expires) returns
DgraphAcquireValue(sid, queryOK, mutateOK) ==
    LET found == ByUid(QueryKey(sid, sid))
    IN IF ~queryOK THEN Panicked    \* response is nil and response.Json dereferences it
       ELSE IF found = <<>>
       THEN IF mutateOK /\ ~AcquireMutationRejected
            THEN LifeTime(CookieExpireDelete)
            ELSE LifeTime(ZeroTime)
       ELSE LifeTime(UnmarshalTime(DecodeString(found[1].svalue)))

DgraphAcquire(sid, expires, now, queryOK, mutateOK) ==
    LET expirationTime == now + expires
        timeBase == EncodeToString(Marshal([t |-> "time", v |-> expirationTime]))
        created == mutateOK /\ ~AcquireMutationRejected
    IN /\ backend = "dgraph" /\ db = "store"
       /\ IF queryOK /\ QueryKey(sid, sid) = {}
          THEN /\ created => nextUid <= MaxUid
               /\ nodes' = IF created
                           THEN nodes \cup {Node(nextUid, sid, sid, timeBase)}
                           ELSE nodes
               /\ nextUid' = IF created THEN nextUid + 1 ELSE nextUid
               /\ firstExpiry' = IF firstExpiry[sid] = ZeroTime
                                 THEN [firstExpiry EXCEPT ![sid] = expirationTime]
                                 ELSE firstExpiry
          ELSE /\ mutateOK
               /\ UNCHANGED <<nodes, nextUid, firstExpiry>>
       /\ ret' = Ret("Acquire", sid, sid, DgraphAcquireValue(sid, queryOK, mutateOK))
       /\ UNCHANGED <<backend, serverAllowsDollar, immutables, alters, db, schema, inflight, clearing, coll>>

\* Acquire up to its `if len(r.Session) == 0`, taken: other calls may run
\* before this one goes on to its mutation
DgraphAcquireQuery(sid) ==
    /\ backend = "dgraph" /\ db = "store"
    /\ QueryKey(sid, sid) = {}
    /\ TotalInflight < MaxInflight
    /\ inflight' = [inflight EXCEPT ![sid] = @ + 1]
    /\ UNCHANGED <<backend, serverAllowsDollar, immutables, alters, db, schema, clearing, coll, nodes, nextUid, firstExpiry, ret>>

\* the rest of that Acquire: the mutation and the return
DgraphAcquireMutate(sid, expires, now, mutateOK) ==
    LET expirationTime == now + expires
        timeBase == EncodeToString(Marshal([t |-> "time", v |-> expirationTime]))
        created == mutateOK /\ ~AcquireMutationRejected
    IN /\ backend = "dgraph" /\ db = "store"
       /\ inflight[sid] > 0
       /\ created => nextUid <= MaxUid
       /\ nodes' = IF created THEN nodes \cup {Node(nextUid, sid, sid, timeBase)} ELSE nodes
       /\ nextUid' = IF created THEN nextUid + 1 ELSE nextUid
       /\ firstExpiry' = IF firstExpiry[sid] = ZeroTime
                         THEN [firstExpiry EXCEPT ![sid] = expirationTime]
                         ELSE firstExpiry
       /\ inflight' = [inflight EXCEPT ![sid] = @ - 1]
       /\ ret' = Ret("Acquire", sid, sid,
                      IF created THEN LifeTime(CookieExpireDelete) ELSE LifeTime(ZeroTime))
       /\ UNCHANGED <<backend, serverAllowsDollar, immutables, alters, db, schema, clearing, coll>>

DgraphOnUpdateExpiration(sid, newExpires) ==
    /\ backend = "dgraph" /\ db = "store"
    /\ ret' = Ret("OnUpdateExpiration", sid, "", OnUpdateExpirationValue(sid, newExpires))
    /\ UNCHANGED <<backend, serverAllowsDollar, immutables, alters, db, schema, inflight, clearing, coll, nodes, nextUid, firstExpiry>>

\* an upsert whose query leaves the sid filter out
SetUpsertAnySession(sid, key, valueBase) ==
    IF {n \in nodes : n.skey = key} = {}
    THEN nodes \cup {Node(nextUid, sid, key, valueBase)}
    ELSE {IF n.skey = key THEN Node(n.uid, sid, key, valueBase) ELSE n : n \in nodes}

\* the upsert block of Set: every node the query binds to v gets the three
\* predicates; with v empty uid(v) is a new node
SetUpsert(sid, key, valueBase) ==
    IF QueryKey(sid, key) = {}
    THEN nodes \cup {Node(nextUid, sid, key, valueBase)}
    ELSE {IF n \in QueryKey(sid, key) THEN Node(n.uid, sid, key, valueBase) ELSE n : n \in nodes}

\* Set(sid, lifetime, key, value, immutable): the code never reads immutable
DgraphSetImmutable(sid, key, value, immutable, drv) ==
    /\ backend = "dgraph" /\ db = "store"
    /\ IF MarshalFails(value)
       THEN drv /\ UNCHANGED <<nodes, nextUid>>
       ELSE IF ~drv
       THEN UNCHANGED <<nodes, nextUid>>
       ELSE /\ QueryKey(sid, key) = {} => nextUid <= MaxUid
            /\ nodes' = SetUpsert(sid, key, EncodeToString(Marshal(value)))
            /\ nextUid' = IF QueryKey(sid, key) = {} THEN nextUid + 1 ELSE nextUid
    /\ ret' = Ret("Set", sid, key, "none")
    /\ immutables' = Noted(sid, key, immutable, drv /\ ~MarshalFails(value))
    /\ UNCHANGED <<backend, serverAllowsDollar, alters, db, schema, inflight, clearing, coll, firstExpiry>>

\* Set called with immutable = false
DgraphSet(sid, key, value, drv) == DgraphSetImmutable(sid, key, value, FALSE, drv)

\* Decode(sid, key, outPtr): the error it returns and what outPtr holds afterwards
DgraphDecode(sid, key, out, drv) ==
    LET found == ByUid(QueryKey(sid, key))
    IN IF ~drv THEN [err |-> "driver error", out |-> out]
       ELSE IF found = <<>> THEN [err |-> "nil", out |-> out]
       ELSE [err |-> "nil", out |-> Unmarshal(DecodeString(found[1].svalue), out)]

\* Decode(sid, key, outPtr) for either kind of outPtr
DgraphDecodeAs(sid, key, kind, out, drv) ==
    LET found == ByUid(QueryKey(sid, key))
    IN IF ~drv THEN [err |-> "driver error", out |-> out]
       ELSE IF found = <<>> THEN [err |-> "nil", out |-> out]
       ELSE [err |-> "nil", out |-> UnmarshalAs(DecodeString(found[1].svalue), kind, out)]

DgraphDecodeCall(sid, key, kind, drv) ==
    /\ backend = "dgraph" /\ db = "store"
    /\ ret' = Ret("Decode", sid, key, DgraphDecodeAs(sid, key, kind, ZeroOut(kind), drv))
    /\ UNCHANGED <<backend, serverAllowsDollar, immutables, alters, db, schema, inflight, clearing, coll, nodes, nextUid, firstExpiry>>

\* what Get(sid, key) returns
DgraphGetValue(sid, key, drv) ==
    LET d == DgraphDecode(sid, key, Nil, drv)
    IN IF d.err = "nil" THEN d.out ELSE Nil

DgraphGet(sid, key, drv) ==
    /\ backend = "dgraph" /\ db = "store"
    /\ ret' = Ret("Get", sid, key, DgraphGetValue(sid, key, drv))
    /\ UNCHANGED <<backend, serverAllowsDollar, immutables, alters, db, schema, inflight, clearing, coll, nodes, nextUid, firstExpiry>>

\* the callback invocations of Visit's loop: it returns at the first value
\* that does not unmarshal
RECURSIVE DgraphVisitLoop(_, _)
DgraphVisitLoop(found, calls) ==
    IF found = <<>> THEN calls
    ELSE LET valueBase == DecodeString(Head(found).svalue)
         IN IF UnmarshalFails(valueBase) THEN calls
            ELSE DgraphVisitLoop(Tail(found),
                   Append(calls, <<Head(found).skey, Unmarshal(valueBase, Nil)>>))

DgraphVisitResult(sid, drv) ==
    [calls |-> IF drv THEN DgraphVisitLoop(ByUid(QuerySid(sid)), <<>>) ELSE <<>>,
     panic |-> FALSE]

DgraphVisit(sid, drv) ==
    /\ backend = "dgraph" /\ db = "store"
    /\ ret' = Ret("Visit", sid, "", DgraphVisitResult(sid, drv))
    /\ UNCHANGED <<backend, serverAllowsDollar, immutables, alters, db, schema, inflight, clearing, coll, nodes, nextUid, firstExpiry>>

\* what Len(sid) returns: count(uid) over q(func: eq(sid, sid))
DgraphLenValue(sid, drv) == IF drv THEN Cardinality(QuerySid(sid)) ELSE 0

DgraphLen(sid, drv) ==
    /\ backend = "dgraph" /\ db = "store"
    /\ ret' = Ret("Len", sid, "", DgraphLenValue(sid, drv))
    /\ UNCHANGED <<backend, serverAllowsDollar, immutables, alters, db, schema, inflight, clearing, coll, nodes, nextUid, firstExpiry>>

\* the nodes left by Delete's request; an accepted `uid(v) <key> * .` would
\* drop the predicate named key, which no node of the session carries
DeleteNQuad(sid, key, drv) == nodes

\* what Delete(sid, key) returns
DgraphDeleteValue(sid, key, drv) == drv /\ ~DeleteNQuadRejected

DgraphDelete(sid, key, drv) ==
    /\ backend = "dgraph" /\ db = "store"
    /\ nodes' = DeleteNQuad(sid, key, drv)
    /\ ret' = Ret("Delete", sid, key, DgraphDeleteValue(sid, key, drv))
    /\ UNCHANGED <<backend, serverAllowsDollar, immutables, alters, db, schema, inflight, clearing, coll, nextUid, firstExpiry>>

\* the entries Clear's loop sends a DeleteJson mutation for
ClearEntries(sid) == {n \in QuerySid(sid) : n.skey # sid}

\* `lost` are the entries whose mutation the driver failed to deliver
DgraphClear(sid, queryOK, lost) ==
    /\ backend = "dgraph" /\ db = "store"
    /\ lost \subseteq ClearEntries(sid)
    /\ ~queryOK => lost = {}
    /\ nodes' = IF queryOK THEN nodes \ (ClearEntries(sid) \ lost) ELSE nodes
    /\ ret' = Ret("Clear", sid, "", "none")
    /\ UNCHANGED <<backend, serverAllowsDollar, immutables, alters, db, schema, inflight, clearing, coll, nextUid, firstExpiry>>

\* Clear up to its loop: the query has returned r.Entries; other calls may
\* run between the iterations that follow
DgraphClearQuery(sid) ==
    /\ backend = "dgraph" /\ db = "store"
    /\ clearing = NoClear
    /\ QuerySid(sid) # {}
    /\ clearing' = [sid |-> sid, entries |-> ByUid(QuerySid(sid)), next |-> 1]
    /\ UNCHANGED <<backend, serverAllowsDollar, immutables, alters, db, schema, inflight, coll, nodes, nextUid, firstExpiry, ret>>

\* a Clear that deletes whatever is left of the session in one mutation
ClearAllEntries(entry, sid, ok) == nodes \ ClearEntries(sid)

\* the nodes after one iteration: the entry with skey = sid is skipped, any
\* other has its uid, sid, skey and svalue deleted by one committed mutation
ClearMutation(entry, sid, ok) ==
    IF entry.skey = sid \/ ~ok THEN nodes ELSE {n \in nodes : n.uid # entry.uid}

\* one iteration of Clear's loop; Clear returns after the last
DgraphClearMutate(ok) ==
    LET entry == clearing.entries[clearing.next]
        last == clearing.next = Len(clearing.entries)
    IN /\ backend = "dgraph" /\ db = "store"
       /\ clearing # NoClear
       /\ entry.skey = clearing.sid => ok
       /\ nodes' = ClearMutation(entry, clearing.sid, ok)
       /\ clearing' = IF last THEN NoClear ELSE [clearing EXCEPT !.next = @ + 1]
       /\ ret' = IF last THEN Ret("Clear", clearing.sid, "", "none") ELSE ret
       /\ UNCHANGED <<backend, serverAllowsDollar, immutables, alters, db, schema, inflight, coll, nextUid, firstExpiry>>

\* `uid(v) * * .` for v bound by q(func: eq(sid, sid))
DgraphRelease(sid, drv) ==
    /\ backend = "dgraph" /\ db = "store"
    /\ nodes' = IF drv THEN nodes \ QuerySid(sid) ELSE nodes
    /\ firstExpiry' = [firstExpiry EXCEPT ![sid] = ZeroTime]
    /\ ret' = Ret("Release", sid, "", "none")
    /\ UNCHANGED <<backend, serverAllowsDollar, immutables, alters, db, schema, inflight, clearing, coll, nextUid>>

----------------------------------------------------------------------------

Init ==
    /\ backend \in {"mongo", "dgraph"}
    /\ serverAllowsDollar \in BOOLEAN
    /\ backend = "dgraph" => serverAllowsDollar = FALSE
    /\ db = "nil"
    /\ schema = FALSE
    /\ inflight = [s \in Sids |-> 0]
    /\ clearing = NoClear
    /\ immutables = {}
    /\ alters = 0
    /\ coll = [s \in Sids |-> <<>>]
    /\ nodes = {}
    /\ nextUid = 1
    /\ firstExpiry = [s \in Sids |-> ZeroTime]
    /\ ret = Ret("main", "", "", "nil")

Next ==
    \/ \E n \in Databases, c \in BOOLEAN : MongoNew(n, c)
    \/ \E a \in Targets, d \in BOOLEAN, q \in BOOLEAN, m \in BOOLEAN : DgraphNew(a, d, q, m)
    \/ \E s \in Sids, e \in Ttls, t \in Clock, f \in BOOLEAN, i \in BOOLEAN : MongoAcquire(s, e, t, f, i)
    \/ \E s \in Sids, e \in Ttls : MongoOnUpdateExpiration(s, e)
    \/ \E s \in Sids, k \in Keys, v \in Values, d \in BOOLEAN : MongoSet(s, k, v, d)
    \/ \E s \in Sids, k \in Keys, o \in OutKinds, d \in BOOLEAN : MongoDecodeCall(s, k, o, d)
    \/ \E s \in Sids, k \in Keys, d \in BOOLEAN : MongoGet(s, k, d)
    \/ \E s \in Sids, d \in BOOLEAN : MongoVisit(s, d)
    \/ \E s \in Sids, d \in BOOLEAN : MongoLen(s, d)
    \/ \E s \in Sids, k \in Keys, d \in BOOLEAN : MongoDelete(s, k, d)
    \/ \E s \in Sids, d \in BOOLEAN : MongoClear(s, d)
    \/ \E s \in Sids, d \in BOOLEAN : MongoRelease(s, d)
    \/ \E s \in Sids, e \in Ttls, t \in Clock, q \in BOOLEAN, m \in BOOLEAN : DgraphAcquire(s, e, t, q, m)
    \/ \E s \in Sids, e \in Ttls : DgraphOnUpdateExpiration(s, e)
    \/ \E s \in Sids, k \in Keys, v \in Values, d \in BOOLEAN : DgraphSet(s, k, v, d)
    \/ \E s \in Sids, k \in Keys, o \in OutKinds, d \in BOOLEAN : DgraphDecodeCall(s, k, o, d)
    \/ \E s \in Sids, k \in Keys, d \in BOOLEAN : DgraphGet(s, k, d)
    \/ \E s \in Sids, d \in BOOLEAN : DgraphVisit(s, d)
    \/ \E s \in Sids, d \in BOOLEAN : DgraphLen(s, d)
    \/ \E s \in Sids, k \in Keys, d \in BOOLEAN : DgraphDelete(s, k, d)
    \/ \E s \in Sids, q \in BOOLEAN, lost \in SUBSET nodes : DgraphClear(s, q, lost)
    \/ \E s \in Sids, d \in BOOLEAN : DgraphRelease(s, d)

Spec == Init /\ [][Next]_vars

\* first requests of sessions served concurrently: Acquire taken one database
\* call at a time, and Len to read what the calls left behind
NextAcquire ==
    \/ \E n \in Databases, c \in BOOLEAN : MongoNew(n, c)
    \/ \E a \in Targets, d \in BOOLEAN, q \in BOOLEAN, m \in BOOLEAN : DgraphNew(a, d, q, m)
    \/ \E s \in Sids, f \in BOOLEAN : MongoAcquireFindOne(s, f)
    \/ \E s \in Sids, e \in Ttls, t \in Clock, i \in BOOLEAN : MongoAcquireInsertOne(s, e, t, i)
    \/ \E s \in Sids, d \in BOOLEAN : MongoLen(s, d)
    \/ \E s \in Sids : DgraphAcquireQuery(s)
    \/ \E s \in Sids, e \in Ttls, t \in Clock, m \in BOOLEAN : DgraphAcquireMutate(s, e, t, m)
    \/ \E s \in Sids, d \in BOOLEAN : DgraphLen(s, d)

SpecAcquire == Init /\ [][NextAcquire]_vars

\* requests of DgraphStore served while a Clear is inside its loop: Clear
\* taken one database call at a time, Set to store entries, and the calls
\* that read a session
NextClear ==
    \/ \E a \in Targets, d \in BOOLEAN, q \in BOOLEAN, m \in BOOLEAN : DgraphNew(a, d, q, m)
    \/ \E s \in Sids, k \in Keys, v \in Values, d \in BOOLEAN : DgraphSet(s, k, v, d)
    \/ \E s \in Sids, k \in Keys, d \in BOOLEAN : DgraphGet(s, k, d)
    \/ \E s \in Sids, d \in BOOLEAN : DgraphVisit(s, d)
    \/ \E s \in Sids, d \in BOOLEAN : DgraphLen(s, d)
    \/ \E s \in Sids : DgraphClearQuery(s)
    \/ \E ok \in BOOLEAN : DgraphClearMutate(ok)

InitDgraph == Init /\ backend = "dgraph"

\* Set called with either value of immutable, and the calls that read or
\* remove the entry afterwards
NextImmutable ==
    \/ \E n \in Databases, c \in BOOLEAN : MongoNew(n, c)
    \/ \E a \in Targets, d \in BOOLEAN, q \in BOOLEAN, m \in BOOLEAN : DgraphNew(a, d, q, m)
    \/ \E s \in Sids, k \in Keys, v \in Values, im \in BOOLEAN, d \in BOOLEAN :
          MongoSetImmutable(s, k, v, im, d)
    \/ \E s \in Sids, k \in Keys, d \in BOOLEAN : MongoGet(s, k, d)
    \/ \E s \in Sids, k \in Keys, d \in BOOLEAN : MongoDelete(s, k, d)
    \/ \E s \in Sids, k \in Keys, v \in Values, im \in BOOLEAN, d \in BOOLEAN :
          DgraphSetImmutable(s, k, v, im, d)
    \/ \E s \in Sids, k \in Keys, d \in BOOLEAN : DgraphGet(s, k, d)
    \/ \E s \in Sids, k \in Keys, d \in BOOLEAN : DgraphDelete(s, k, d)

SpecImmutable == Init /\ [][NextImmutable]_vars

SpecClear == InitDgraph /\ [][NextClear]_vars

----------------------------------------------------------------------------
(* The calls as the session manager sees them, through sessions.Database,  *)
(* when every driver call succeeds                                         *)

Get(sid, key) ==
    IF backend = "mongo" THEN MongoGetValue(sid, key, TRUE) ELSE DgraphGetValue(sid, key, TRUE)

LenOf(sid) ==
    IF backend = "mongo" THEN MongoLenValue(sid, TRUE) ELSE DgraphLenValue(sid, TRUE)

\* what the next Acquire(sid, ttl) returns
AcquireValue(sid) ==
    IF backend = "mongo" THEN MongoAcquireValue(sid, TRUE)
    ELSE DgraphAcquireValue(sid, TRUE, TRUE)

SetStep(sid, key, value) ==
    /\ ~MarshalFails(value)
    /\ MongoSet(sid, key, value, TRUE) \/ DgraphSet(sid, key, value, TRUE)

ClearStep(sid) == MongoClear(sid, TRUE) \/ DgraphClear(sid, TRUE, {})

ReleaseStep(sid) == MongoRelease(sid, TRUE) \/ DgraphRelease(sid, TRUE)

VisitStep(sid) == MongoVisit(sid, TRUE) \/ DgraphVisit(sid, TRUE)

\* the user keys of a session that Get finds
KeysSet(sid) == {k \in Keys \ {sid} : Get(sid, k) # Nil}

\* the records stored for the pair (sid, key), the key read wherever the
\* record holds it
MongoRecords(sid, key) == {i \in 1..Len(coll[sid]) : coll[sid][i].key = key}
DgraphRecords(sid, key) == {n \in nodes : n.sid = sid /\ n.skey = key}
RecordCount(sid, key) ==
    IF backend = "mongo" THEN Cardinality(MongoRecords(sid, key))
    ELSE Cardinality(DgraphRecords(sid, key))

\* the expiry the bootstrap record found by Acquire's lookup holds, ZeroTime if
\* the lookup finds none
StoredExpiry(sid) ==
    IF backend = "mongo"
    THEN LET i == FindOne(coll[sid], sid)
         IN IF i = 0 THEN ZeroTime ELSE UnmarshalTime(DecodeString(coll[sid][i].value))
    ELSE LET found == ByUid(QueryKey(sid, sid))
         IN IF found = <<>> THEN ZeroTime ELSE UnmarshalTime(DecodeString(found[1].svalue))

----------------------------------------------------------------------------
(* C1: in both stores, for a key k other than the session id, a Set(s,k,v) *)
(* that stores v makes Get(s,k) return v as it comes back from the         *)
(* serialization round trip, whatever (s,k) held before, and every call    *)
(* other than Set/Delete on (s,k) and Clear/Release on s leaves Get(s,k)   *)
(* as it was (a call that leaves the session's records alone leaves Get    *)
(* alone, which spares computing it).                                      *)
C1_SetThenGet ==
    [][\A s \in Sids : \A k \in Keys \ {s} :
          IF ret'.sid = s /\ ret'.op = "Set" /\ ret'.key = k
          THEN \A v \in Values : SetStep(s, k, v) => Get(s, k)' = RoundTrip(v)
          ELSE IF /\ ret'.sid = s
                  /\ \/ ret'.op \in {"Clear", "Release"}
                     \/ ret'.op = "Delete" /\ ret'.key = k
          THEN TRUE
          ELSE <<coll[s], nodes>>' = <<coll[s], nodes>> \/ Get(s, k)' = Get(s, k)]_vars

\* Get has just returned the float64 that an int stored under a user key
\* comes back as
C1_Witness ==
    /\ ret.op = "Get"
    /\ ret.key # ret.sid
    /\ ret.val = RoundTrip([t |-> "int", v |-> 7])
    /\ ret.val # [t |-> "int", v |-> 7]
    /\ Get(ret.sid, ret.key) = ret.val

(* C2: in MongoStore, Acquire(s, ttl) on a session without bootstrap       *)
(* record stores one with expiry now+ttl, which Acquire's lookup finds,    *)
(* and returns the sentinel; every later Acquire(s, ttl') with no          *)
(* Release(s) in between writes nothing and returns the expiry stored by   *)
(* the first call.                                                         *)
C2_MongoAcquire ==
    [][\A s \in Sids, e \in Ttls, t \in Clock :
          (backend = "mongo" /\ MongoAcquire(s, e, t, TRUE, TRUE)) =>
             IF firstExpiry[s] = ZeroTime
             THEN MongoRecords(s, s) = {} =>
                     /\ ret'.val = LifeTime(CookieExpireDelete)
                     /\ StoredExpiry(s)' = t + e
             ELSE /\ coll' = coll
                  /\ ret'.val = LifeTime(firstExpiry[s])]_vars

(* C3: in DgraphStore, Acquire(s, ttl) on a session without bootstrap node *)
(* creates the node (sid = s, skey = s, svalue = expiry now+ttl) and       *)
(* returns the sentinel; every later Acquire(s, ttl') with no Release(s)   *)
(* in between writes nothing and returns the expiry stored by the first    *)
(* call.                                                                   *)
C3_DgraphAcquire ==
    [][\A s \in Sids, e \in Ttls, t \in Clock :
          (backend = "dgraph" /\ DgraphAcquire(s, e, t, TRUE, TRUE)) =>
             IF firstExpiry[s] = ZeroTime
             THEN DgraphRecords(s, s) = {} =>
                     /\ ret'.val = LifeTime(CookieExpireDelete)
                     /\ Cardinality(DgraphRecords(s, s)') = 1
                     /\ StoredExpiry(s)' = t + e
             ELSE /\ nodes' = nodes
                  /\ ret'.val = LifeTime(firstExpiry[s])]_vars

(* C4: in both stores, after Clear(s) on an acquired session Get(s,k) is   *)
(* absent for every user key k and the next Acquire(s, ttl) reports the    *)
(* expiry stored when s was first acquired.                                *)
C4_ClearKeepsBootstrap ==
    [][\A s \in Sids :
          (ClearStep(s) /\ firstExpiry[s] # ZeroTime) =>
             /\ \A k \in Keys \ {s} : Get(s, k)' = Nil
             /\ AcquireValue(s)' = LifeTime(firstExpiry[s])]_vars

(* C5: in both stores, after Release(s) Get(s,k) is absent for every k and *)
(* Len(s) is 0, and the Acquire(s, ttl) that follows creates a bootstrap   *)
(* record with expiry now+ttl and returns the sentinel lifetime.           *)
C5_ReleaseThenFirstTouch ==
    [][\A s \in Sids :
          /\ ReleaseStep(s) => (LenOf(s)' = 0 /\ \A k \in Keys : Get(s, k)' = Nil)
          /\ \A e \in Ttls, t \in Clock :
                (/\ ret.op = "Release" /\ ret.sid = s /\ ret.val # "driver error"
                 /\ LenOf(s) = 0
                 /\ \/ MongoAcquire(s, e, t, TRUE, TRUE)
                    \/ DgraphAcquire(s, e, t, TRUE, TRUE))
                => (ret'.val = LifeTime(CookieExpireDelete) /\ StoredExpiry(s)' = t + e)]_vars

(* C6: in MongoStore, Delete(s,k) on an existing key removes exactly that  *)
(* entry: Get(s,k) is absent afterwards, Len(s) is one less, every other   *)
(* key of s returns what it returned before, other sessions are untouched. *)
C6_MongoDelete ==
    [][\A s \in Sids, k \in Keys :
          (/\ backend = "mongo" /\ ret'.op = "Delete"
           /\ MongoDelete(s, k, TRUE) /\ FindOne(coll[s], k) # 0) =>
             /\ MongoGetValue(s, k, TRUE)' = Nil
             /\ MongoLenValue(s, TRUE)' = MongoLenValue(s, TRUE) - 1
             /\ \A k2 \in Keys \ {k} : MongoGetValue(s, k2, TRUE)' = MongoGetValue(s, k2, TRUE)
             /\ \A s2 \in Sids \ {s} : coll'[s2] = coll[s2]
             /\ ret'.val = TRUE]_vars

\* Delete has returned true, its key is gone and another key of the session
\* is still there
C6_Witness ==
    /\ backend = "mongo"
    /\ ret.op = "Delete" /\ ret.val = TRUE
    /\ MongoGetValue(ret.sid, ret.key, TRUE) = Nil
    /\ \E k2 \in Keys \ {ret.key} : MongoGetValue(ret.sid, k2, TRUE) # Nil
    /\ MongoLenValue(ret.sid, TRUE) = 1

(* C7: in DgraphStore, Delete(s,k) on an existing key removes exactly the  *)
(* node with sid = s and skey = k: Get(s,k) is absent afterwards, Len(s)   *)
(* is one less, every other key of s returns what it returned before, and  *)
(* Delete returns true.                                                    *)
C7_DgraphDelete ==
    [][\A s \in Sids, k \in Keys :
          (/\ backend = "dgraph" /\ ret'.op = "Delete"
           /\ DgraphDelete(s, k, TRUE) /\ QueryKey(s, k) # {}) =>
             /\ DgraphGetValue(s, k, TRUE)' = Nil
             /\ DgraphLenValue(s, TRUE)' = DgraphLenValue(s, TRUE) - 1
             /\ \A k2 \in Keys \ {k} : DgraphGetValue(s, k2, TRUE)' = DgraphGetValue(s, k2, TRUE)
             /\ ret'.val = TRUE]_vars

(* C8: the store holds at most one record per (sid, key) pair, the         *)
(* bootstrap record (key = sid) included.                                  *)
C8_OneRecordPerPair ==
    \A s \in Sids, k \in Keys : RecordCount(s, k) <= 1

(* C9 as claimed: on an acquired session that holds N distinct user keys   *)
(* Len(s) is N, the bootstrap record not counted.                          *)
C9_LenSkipsBootstrap ==
    \A s \in Sids :
       (firstExpiry[s] # ZeroTime /\ Get(s, s) = Nil) => LenOf(s) = Cardinality(KeysSet(s))

(* C9 amended: Len(s) counts every record stored for s: the user keys that *)
(* are set plus the bootstrap records (key = sid) the store holds for s.   *)
C9_LenCountsAllRecords ==
    \A s \in Sids : LenOf(s) = Cardinality(KeysSet(s)) + RecordCount(s, s)

\* an acquired session with two user keys set, and Len has just returned
C9_Witness ==
    /\ ret.op = "Len"
    /\ firstExpiry[ret.sid] # ZeroTime
    /\ Cardinality(KeysSet(ret.sid)) = 2
    /\ ret.val = LenOf(ret.sid)

(* C10: in both stores, Visit(s, fn) invokes fn exactly once for each user *)
(* key set in s, with the key as given to Set and the value last set, and  *)
(* never with a key that s does not hold.                                  *)
C10_VisitEachKeyOnce ==
    [][\A s \in Sids :
          VisitStep(s) =>
             LET calls == ret'.val.calls
             IN /\ ~ret'.val.panic
                /\ \A k \in KeysSet(s) :
                      Cardinality({i \in 1..Len(calls) : calls[i] = <<k, Get(s, k)>>}) = 1
                /\ \A i \in 1..Len(calls) : calls[i][1] \in KeysSet(s) \cup {s}]_vars

----------------------------------------------------------------------------
\* the payload stored for (sid, key) as Decode's lookup finds it
HasEntry(sid, key) ==
    IF backend = "mongo" THEN FindOne(coll[sid], key) # 0 ELSE QueryKey(sid, key) # {}

StoredPayload(sid, key) ==
    IF backend = "mongo" THEN coll[sid][FindOne(coll[sid], key)].value
    ELSE ByUid(QueryKey(sid, key))[1].svalue

DecodeStep(sid, key, kind) ==
    MongoDecodeCall(sid, key, kind, TRUE) \/ DgraphDecodeCall(sid, key, kind, TRUE)

(* C11: in both stores Decode(s,k,out) that reaches the database tells     *)
(* three outcomes apart: with no entry (s,k) it returns an error and       *)
(* leaves out as it was; with an entry whose payload does not deserialize  *)
(* into out it returns an error other than the not-found one; otherwise it *)
(* returns nil with out set to the stored value.                           *)
C11_DecodeOutcomes ==
    [][ret'.op = "Decode" => \A s \in Sids, k \in Keys, o \in OutKinds :
          (ret'.sid = s /\ ret'.key = k /\ DecodeStep(s, k, o)) =>
             IF ~HasEntry(s, k)
             THEN ret'.val.err # "nil" /\ ret'.val.out = ZeroOut(o)
             ELSE IF UnmarshalAsFails(DecodeString(StoredPayload(s, k)), o)
             THEN ret'.val.err \notin {"nil", "no documents"}
             ELSE /\ ret'.val.err = "nil"
                  /\ ret'.val.out = UnmarshalAs(DecodeString(StoredPayload(s, k)), o, ZeroOut(o))]_vars

(* C12: in both stores Get(s,k) returns nil when no entry (s,k) exists and *)
(* when the driver call of Decode fails, returns a value or nil and never  *)
(* an error, and leaves the stored state as it was.                        *)
C12_GetNilOnError ==
    [][ret'.op = "Get" => \A s \in Sids, k \in Keys, d \in BOOLEAN :
          (/\ ret'.sid = s /\ ret'.key = k
           /\ MongoGet(s, k, d) \/ DgraphGet(s, k, d)) =>
             /\ (~HasEntry(s, k) \/ ~d) => ret'.val = Nil
             /\ ret'.val.t \in {"nil", "float64", "string"}
             /\ <<coll, nodes, nextUid>>' = <<coll, nodes, nextUid>>]_vars

\* Get has returned nil for an entry that is there: its driver call failed
C12_Witness ==
    /\ ret.op = "Get"
    /\ ret.val = Nil
    /\ HasEntry(ret.sid, ret.key)
    /\ Get(ret.sid, ret.key) # Nil

\* whether the delete call of Delete(sid, key) returns an error: the driver
\* fails, or the Alpha rejects the request
DeleteCallFails(drv) ==
    IF backend = "mongo" THEN ~drv ELSE ~drv \/ DeleteNQuadRejected

(* C13: Delete(s,k) returns true exactly when its delete call reports no   *)
(* error; with no error and no entry (s,k) it returns true and leaves the  *)
(* stored state as it was.                                                 *)
C13_DeleteReportsCallError ==
    [][ret'.op = "Delete" => \A s \in Sids, k \in Keys, d \in BOOLEAN :
          (/\ ret'.sid = s /\ ret'.key = k
           /\ MongoDelete(s, k, d) \/ DgraphDelete(s, k, d)) =>
             /\ ret'.val = ~DeleteCallFails(d)
             /\ (~DeleteCallFails(d) /\ ~HasEntry(s, k)) =>
                    (ret'.val = TRUE /\ <<coll, nodes>>' = <<coll, nodes>>)]_vars

\* Delete has returned true for a key the session never held, next to a key
\* that it still holds
C13_Witness ==
    /\ ret.op = "Delete" /\ ret.val = TRUE
    /\ ~HasEntry(ret.sid, ret.key)
    /\ LenOf(ret.sid) = 1
    /\ backend = "mongo"

(* C14: in MongoStore the write operations hand the driver's error to the  *)
(* caller: Set, Clear and Release return the error of their UpdateOne,     *)
(* DeleteMany or Drop call, nil when it succeeds, and a Set whose value    *)
(* cannot be serialized returns that error and writes nothing.             *)
C14_MongoWriteErrors ==
    [][/\ ret'.op = "Set" => \A s \in Sids, k \in Keys, v \in Values, d \in BOOLEAN :
            (ret'.sid = s /\ ret'.key = k /\ MongoSet(s, k, v, d)) =>
               IF v.t = "chan"
               THEN ret'.val = "marshal error" /\ coll' = coll
               ELSE ret'.val = (IF d THEN "nil" ELSE "driver error")
       /\ ret'.op \in {"Clear", "Release"} => \A s \in Sids, d \in BOOLEAN :
            (ret'.sid = s /\ (MongoClear(s, d) \/ MongoRelease(s, d))) =>
               ret'.val = (IF d THEN "nil" ELSE "driver error")]_vars

\* Set has returned the serialization error and the session still holds
\* what it held
C14_Witness ==
    /\ backend = "mongo"
    /\ ret.op = "Set" /\ ret.val = "marshal error"
    /\ Get(ret.sid, ret.key) = RoundTrip([t |-> "string", v |-> 8])

(* C15: in both stores OnUpdateExpiration(s, d) returns the not-implemented *)
(* error for every s and d and changes nothing stored: the next Acquire(s)  *)
(* reports what it would have reported before the call, and every entry of  *)
(* s reads as before.                                                       *)
C15_OnUpdateExpiration ==
    [][ret'.op = "OnUpdateExpiration" => \A s \in Sids, e \in Ttls :
          (MongoOnUpdateExpiration(s, e) \/ DgraphOnUpdateExpiration(s, e)) =>
             /\ ret'.val = "not implemented"
             /\ AcquireValue(s)' = AcquireValue(s)
             /\ \A k \in Keys : Get(s, k)' = Get(s, k)
             /\ <<coll, nodes>>' = <<coll, nodes>>]_vars

\* OnUpdateExpiration has returned on a session whose lookup finds an expiry
\* record and a user entry
C15_Witness ==
    /\ ret.op = "OnUpdateExpiration" /\ ret.val = "not implemented"
    /\ HasEntry(ret.sid, ret.sid)
    /\ \E k \in Keys \ {ret.sid} : HasEntry(ret.sid, k)

(* C16: New with an empty configuration fails before any connection is     *)
(* attempted: mongostore.New("") returns (nil, "database name is           *)
(* required") and dgraphstore.New("") returns (nil, "gRPC url is           *)
(* required"); neither calls Connect or Dial, touches the database or      *)
(* hands out a store.                                                      *)
C16_NewRejectsEmpty ==
    [][(ret'.op = "New" /\ ret'.key = "") =>
          /\ ret'.val = [db |-> "nil",
                          err |-> IF backend = "mongo" THEN "database name is required"
                                  ELSE "gRPC url is required",
                          dialed |-> FALSE]
          /\ <<db, schema, coll, nodes>>' = <<db, schema, coll, nodes>>]_vars

\* New has refused an empty name and the program holds no store
C16_Witness ==
    /\ ret.op = "New" /\ ret.key = ""
    /\ ret.val.db = "nil" /\ ~ret.val.dialed
    /\ db = "nil"

C18_ClearOneEntryPerMutation ==
    [][(clearing # NoClear /\ clearing' # clearing) =>
          /\ nodes' \subseteq nodes
          /\ \A n \in nodes \ nodes' :
                n.uid = clearing.entries[clearing.next].uid /\ n.skey # clearing.sid]_vars

\* Len has returned 1 on a session whose Clear read two user entries, has
\* removed the first and not yet the second
C18_Witness ==
    /\ clearing # NoClear
    /\ Len(clearing.entries) = 2 /\ clearing.next = 2
    /\ clearing.entries[1].skey # clearing.sid /\ clearing.entries[1] \notin nodes
    /\ clearing.entries[2].skey # clearing.sid /\ clearing.entries[2] \in nodes
    /\ ret.op = "Len" /\ ret.sid = clearing.sid /\ ret.val = 1
    /\ Cardinality(KeysSet(clearing.sid)) = 1

(* C19: the expiry Acquire(s) reports is not changed by user data calls:   *)
(* for every key k, k = s included, a Set(s,k,v) or Delete(s,k) leaves     *)
(* what the next Acquire(s) returns as it was.                             *)
C19_DataCallsKeepExpiry ==
    [][ret'.op \in {"Set", "Delete"} =>
          \A s \in Sids : ret'.sid = s => AcquireValue(s)' = AcquireValue(s)]_vars

\* what Visit(sid, fn) does when its driver call succeeds
VisitOf(sid) ==
    IF backend = "mongo" THEN MongoVisitResult(sid, TRUE) ELSE DgraphVisitResult(sid, TRUE)

(* C20: sessions are isolated: a call on one session (Acquire, Set,        *)
(* Delete, Clear, Release or any other) leaves the records of every other  *)
(* session s2 as they were, and Get, Len, Visit and Acquire on s2 return   *)
(* what they returned before (a call that writes nothing at all leaves    *)
(* them alone, which spares computing them).                               *)
C20_SessionsIsolated ==
    [][\A s2 \in Sids : ret'.sid # s2 =>
          /\ coll'[s2] = coll[s2]
          /\ QuerySid(s2)' = QuerySid(s2)
          /\ \/ <<coll, nodes>>' = <<coll, nodes>>
             \/ /\ LenOf(s2)' = LenOf(s2)
                /\ VisitOf(s2)' = VisitOf(s2)
                /\ AcquireValue(s2)' = AcquireValue(s2)
                /\ \A k \in Keys : Get(s2, k)' = Get(s2, k)]_vars

\* Set has stored a key in one session that another session holds with a
\* different value
C20_Witness ==
    /\ ret.op = "Set" /\ ret.val \in {"nil", "none"}
    /\ \E s2 \in Sids \ {ret.sid} :
          /\ Get(s2, ret.key) # Nil
          /\ Get(ret.sid, ret.key) # Nil
          /\ Get(s2, ret.key) # Get(ret.sid, ret.key)

(* C21: a Set(s,k,v) that stores v changes only the entry (s,k): every     *)
(* other entry of s reads as before, the records of other sessions are     *)
(* untouched, and Len(s) grows by exactly one when the lookup found no     *)
(* entry (s,k) before and stays as it was when it found one.               *)
C21_SetChangesOneEntry ==
    [][ret'.op = "Set" => \A s \in Sids, k \in Keys, v \in Values :
          (ret'.sid = s /\ ret'.key = k /\ SetStep(s, k, v)) =>
             /\ \A k2 \in Keys \ {k} : Get(s, k2)' = Get(s, k2)
             /\ LenOf(s)' = LenOf(s) + (IF HasEntry(s, k) THEN 0 ELSE 1)
             /\ \A s2 \in Sids \ {s} :
                   coll'[s2] = coll[s2] /\ QuerySid(s2)' = QuerySid(s2)]_vars

\* Set has overwritten one of two entries of a session; the other entry
\* holds a different value
C21_Witness ==
    /\ ret.op = "Set" /\ ret.val \in {"nil", "none"}
    /\ LenOf(ret.sid) = 2
    /\ Get(ret.sid, ret.key) = RoundTrip([t |-> "string", v |-> 8])
    /\ \E k2 \in Keys \ {ret.key} : Get(ret.sid, k2) = RoundTrip([t |-> "int", v |-> 7])

(* C22: in every reachable state and for every session s, Len(s) equals    *)
(* the number of times Visit(s, fn) invokes fn.                            *)
C22_LenIsVisitCount ==
    \A s \in Sids : LenOf(s) = Len(VisitOf(s).calls)

(* C23: no DgraphStore call crashes when its database call fails or finds  *)
(* nothing: Acquire returns a LifeTime also when its lookup query fails,   *)
(* and Len returns 0 when its count query fails.                           *)
C23_DgraphNeverCrashes ==
    [][backend = "dgraph" =>
          /\ ret'.op = "Acquire" => ret'.val.t = "LifeTime"
          /\ ret'.op = "Visit" => ~ret'.val.panic
          /\ ret'.op = "Len" => \A s \in Sids : DgraphLen(s, FALSE) => ret'.val = 0]_vars

(* C24: the store does not enforce immutable: once a Set(s,k,v1) with      *)
(* immutable = true has stored its value, a later Set(s,k,v2) stores v2    *)
(* and Get(s,k) returns it, and Delete(s,k) removes the entry; with        *)
(* either value of immutable, Set stores v at (s,k) and leaves every       *)
(* other entry of s as it was.                                             *)
C24_ImmutableNotEnforced ==
    [][\A s \in Sids, k \in Keys :
          (ret'.sid = s /\ ret'.key = k) =>
             /\ ret'.op = "Set" => \A v \in Values, im \in BOOLEAN :
                   (/\ ~MarshalFails(v)
                    /\ \/ MongoSetImmutable(s, k, v, im, TRUE)
                       \/ DgraphSetImmutable(s, k, v, im, TRUE)) =>
                      /\ Get(s, k)' = RoundTrip(v)
                      /\ \A k2 \in Keys \ {k} : Get(s, k2)' = Get(s, k2)
             /\ (/\ ret'.op = "Delete" /\ <<s, k>> \in immutables
                 /\ MongoDelete(s, k, TRUE) \/ DgraphDelete(s, k, TRUE)) =>
                   Get(s, k)' = Nil]_vars

(* C25: dgraphstore.NewFromDB declares the schema only when its query      *)
(* reports no SessionEntry type: a construction against a database that    *)
(* has the type calls no Alter and leaves the schema alone, so however     *)
(* many constructions run one after the other the schema is declared at    *)
(* most once, and exactly once when a store has been returned; when the    *)
(* query or the Alter fails, New returns an error and no store.            *)
C25_SchemaDeclaredOnce ==
    [][(backend = "dgraph" /\ ret'.op = "New") =>
          \A a \in Targets, d \in BOOLEAN, q \in BOOLEAN, m \in BOOLEAN :
             DgraphNew(a, d, q, m) =>
                /\ schema => (alters' = alters /\ schema')
                /\ alters' <= 1
                /\ ret'.val.db = "store" => (schema' /\ alters' = 1)
                /\ (a # "" /\ d /\ (~q \/ (~schema /\ ~m))) =>
                      (ret'.val.db = "nil" /\ ret'.val.err # "nil" /\ db' = db /\ schema' = schema)]_vars

\* New has returned a store against a database that already holds entries,
\* and the schema has been declared once
C25_Witness ==
    /\ backend = "dgraph"
    /\ ret.op = "New" /\ ret.val.db = "store"
    /\ nodes # {}
    /\ schema /\ alters = 1

====
